---- MODULE Spec2Model ----
(***************************************************************************)
(* react-wordcloud, src/index.tsx: the Wordcloud component's debounced,    *)
(* retrying layout pipeline.                                               *)
(*                                                                         *)
(*   reRender   = debounce(pipeline, renderDebounce)     (lines 82-194)    *)
(*   pipeline   = select words, seed the random source, draw(fontSizes)    *)
(*   draw       = format the words, create and start a layout; its onDone  *)
(*                either stops the layout and draws again with the bounds  *)
(*                shrunk by SHRINK_FACTOR, or hands the words to render    *)
(*   useEffect  = calls reRender.current(...) and returns what it returns  *)
(*                as the effect's cleanup                (lines 196-207)   *)
(*                                                                         *)
(* Numbers: font sizes are JavaScript numbers; they are modelled as exact  *)
(* rationals (SHRINK_FACTOR = 19/20) over naturals of arbitrary size.      *)
(***************************************************************************)
EXTENDS Integers, Sequences, FiniteSets, TLC

(***************************************************************************)
(* Naturals of arbitrary size: little-endian sequences of limbs in         *)
(* 0..9999 without leading zero limbs (20^10 does not fit a machine int).  *)
(***************************************************************************)
RECURSIVE BigOf(_)
BigOf(k) == IF k = 0 THEN <<>> ELSE <<k % 10000>> \o BigOf(k \div 10000)

RECURSIVE BigAddC(_, _, _)
BigAddC(a, b, c) ==
    IF a = <<>> /\ b = <<>>
    THEN IF c = 0 THEN <<>> ELSE <<c>>
    ELSE LET x == IF a = <<>> THEN 0 ELSE Head(a)
             y == IF b = <<>> THEN 0 ELSE Head(b)
             t == x + y + c
         IN  <<t % 10000>> \o BigAddC(IF a = <<>> THEN a ELSE Tail(a),
                                      IF b = <<>> THEN b ELSE Tail(b),
                                      t \div 10000)

BigAdd(a, b) == BigAddC(a, b, 0)

RECURSIVE BigMulSmallC(_, _, _)
BigMulSmallC(a, k, c) ==
    IF a = <<>>
    THEN BigOf(c)
    ELSE LET t == Head(a) * k + c
         IN  <<t % 10000>> \o BigMulSmallC(Tail(a), k, t \div 10000)

\* a * k for a limb-sized k (0..9999)
BigMulSmall(a, k) == IF k = 0 THEN <<>> ELSE BigMulSmallC(a, k, 0)

RECURSIVE BigMul(_, _)
BigMul(a, b) ==
    IF a = <<>> \/ b = <<>>
    THEN <<>>
    ELSE LET rest == BigMul(a, Tail(b))
         IN  BigAdd(BigMulSmall(a, Head(b)),
                    IF rest = <<>> THEN <<>> ELSE <<0>> \o rest)

RECURSIVE BigLeqFrom(_, _, _)
BigLeqFrom(a, b, i) ==
    IF i = 0 THEN TRUE
    ELSE IF a[i] # b[i] THEN a[i] < b[i]
    ELSE BigLeqFrom(a, b, i - 1)

BigLeq(a, b) ==
    IF Len(a) # Len(b) THEN Len(a) < Len(b) ELSE BigLeqFrom(a, b, Len(a))

(***************************************************************************)
(* Non-negative rationals n/d (d > 0), not reduced: compare with RatLeq    *)
(* and RatEq, never with =.                                                *)
(***************************************************************************)
Rat(n, d) == [n |-> BigOf(n), d |-> BigOf(d)]

RatLeq(x, y) == BigLeq(BigMul(x.n, y.d), BigMul(y.n, x.d))

RatEq(x, y) == BigMul(x.n, y.d) = BigMul(y.n, x.d)

RatLess(x, y) == ~RatLeq(y, x)

\* Math.max(x, y)
MathMax(x, y) == IF RatLeq(x, y) THEN y ELSE x

RatMul(x, y) == [n |-> BigMul(x.n, y.n), d |-> BigMul(x.d, y.d)]

RatOne == Rat(1, 1)

(***************************************************************************)
(* Program constants (lines 13-14).                                        *)
(***************************************************************************)
MAX_LAYOUT_ATTEMPTS == 10

\* SHRINK_FACTOR = 0.95 = ShrinkNum / ShrinkDen
ShrinkNum == 19
ShrinkDen == 20
SHRINK_FACTOR == Rat(ShrinkNum, ShrinkDen)

(***************************************************************************)
(* Bounds of the model.                                                    *)
(***************************************************************************)
\* longest word list submitted
MaxLen == 3
\* word values are drawn from 1..MaxValue
MaxValue == 2
\* scheduling calls (effect runs) of one component instance
MaxCalls == 2
\* renderDebounce, in clock ticks
DebounceTicks == 2
\* the random source yields k / RandomResolution, k in 0..RandomResolution-1
RandomResolution == 12
\* seedrandom() without a key seeds itself from entropy 1..MaxEntropy
MaxEntropy == 2

Min(a, b) == IF a <= b THEN a ELSE b
Max(a, b) == IF a >= b THEN a ELSE b

(***************************************************************************)
(* Inputs of a scheduling call (lines 84-91): the word list, maxWords and  *)
(* the options read by the pipeline.  selection, size, callbacks and the   *)
(* styling options are passed through unread by the code modelled here.    *)
(***************************************************************************)
Texts == <<"a", "b", "c", "d", "e">>

\* every list of n words, the i-th named Texts[i], with values in 1..MaxValue
WordListsOfLen(n) ==
    { [i \in 1..n |-> [text |-> Texts[i], value |-> vs[i]]] :
        vs \in [1..n -> 1..MaxValue] }

WordLists == UNION { WordListsOfLen(n) : n \in 0..MaxLen }

\* defaultOptions.fontSizes (line 27)
DefaultFontSizes == <<Rat(4, 1), Rat(32, 1)>>

\* configured fontSizes: the default, bounds at the floor, bounds below 1,
\* and a min above max (the code validates none of them)
FontSizeChoices ==
    { DefaultFontSizes,
      <<Rat(1, 1), Rat(2, 1)>>,
      <<Rat(1, 1), Rat(1, 1)>>,
      <<Rat(1, 2), Rat(3, 4)>>,
      <<Rat(8, 1), Rat(2, 1)>> }

ExampleWords ==
    << [text |-> "a", value |-> 2], [text |-> "b", value |-> 1] >>

Inputs(words, maxWords, fontSizes, deterministic) ==
    [words |-> words, maxWords |-> maxWords, fontSizes |-> fontSizes,
     deterministic |-> deterministic]

\* inputs of a component that is given its props once
ChainInputs ==
    { Inputs(w, m, DefaultFontSizes, TRUE) :
        w \in WordLists, m \in 0..(MaxLen + 1) }
    \cup { Inputs(ExampleWords, 2, f, d) :
             f \in FontSizeChoices, d \in BOOLEAN }

\* inputs of a component whose props change
InputSet ==
    { Inputs(ExampleWords, 2, DefaultFontSizes, TRUE),
      Inputs(<<[text |-> "c", value |-> 1]>>, 1,
             <<Rat(1, 1), Rat(2, 1)>>, TRUE) }

(***************************************************************************)
(* Word Selector (lines 115-118):                                          *)
(*   words.concat().sort((x, y) => descending(x.value, y.value))           *)
(*        .slice(0, maxWords)                                              *)
(***************************************************************************)
\* d3-array descending(a, b): b < a ? -1 : b > a ? 1 : 0
descending(a, b) == IF b < a THEN -1 ELSE IF b > a THEN 1 ELSE 0

\* (mutant of Insert: a sort that puts a word before its equals)
RECURSIVE InsertUnstable(_, _)
InsertUnstable(s, w) ==
    IF s = <<>> THEN <<w>>
    ELSE IF descending(Head(s).value, w.value) < 0
         THEN <<Head(s)>> \o InsertUnstable(Tail(s), w)
         ELSE <<w>> \o s

\* insert w behind every element the comparator does not order after it
RECURSIVE Insert(_, _)
Insert(s, w) ==
    IF s = <<>> THEN <<w>>
    ELSE IF descending(Head(s).value, w.value) <= 0
         THEN <<Head(s)>> \o Insert(Tail(s), w)
         ELSE <<w>> \o s

\* Array.prototype.sort with the comparator above: a stable sort
RECURSIVE Sort(_)
Sort(s) ==
    IF s = <<>> THEN <<>>
    ELSE Insert(Sort(SubSeq(s, 1, Len(s) - 1)), s[Len(s)])

\* Array.prototype.slice(0, end)
SliceTo(s, end) ==
    LET e == IF end < 0 THEN Max(Len(s) + end, 0) ELSE Min(end, Len(s))
    IN  SubSeq(s, 1, e)

sortedWords(words, maxWords) == SliceTo(Sort(words), maxWords)

\* the caller's array after the selector ran: .concat() sorts a copy
WordsAfterSelect(words) == words

(***************************************************************************)
(* Random source (lines 106-108): seedrandom(key) is a generator whose     *)
(* draws are a fixed function of its seed.  A generator state is a number  *)
(* x in 0..RandomResolution-1; random() returns x / RandomResolution and   *)
(* steps the state.                                                        *)
(***************************************************************************)
\* (mutant of Seed: the generator is always seeded from entropy)
SeedEntropy(deterministic, entropy) == entropy

\* seedrandom('deterministic') : seedrandom()
Seed(deterministic, entropy) == IF deterministic THEN 0 ELSE entropy

RandomStep(x) == (x + 5) % RandomResolution

RECURSIVE RandomSkip(_, _)
RandomSkip(x, n) == IF n = 0 THEN x ELSE RandomSkip(RandomStep(x), n - 1)

\* (mutant of rotateWord: the draw is rounded instead of truncated)
rotateWordRound(x) ==
    (((x * 12 + RandomResolution) \div (2 * RandomResolution)) - 3) * 30

\* Default rotation fn (line 113): (~~(random() * 6) - 3) * 30
rotateWord(x) == (((x * 6) \div RandomResolution) - 3) * 30

(***************************************************************************)
(* formatWords (lines 120-137): one rotateWord() draw per word, in order;  *)
(* size is fontScale(d.value) for the scale built from fontSizes.          *)
(***************************************************************************)
\* getFontScale(words, fontSizes, scale)(value), kept symbolic
fontScale(words, fontSizes, value) == [value |-> value, range |-> fontSizes]

formatWords(words, fontSizes, x) ==
    [i \in 1..Len(words) |->
        [text   |-> words[i].text,
         value  |-> words[i].value,
         rotate |-> rotateWord(RandomSkip(x, i - 1)),
         size   |-> fontScale(words, fontSizes, words[i].value)]]

(***************************************************************************)
(* Layout engine (createCloud of ./cloud, consumed at lines 142-181): a    *)
(* handle is started, reports the words it placed through onDone unless    *)
(* it was stopped first, and draws from the random source while placing.   *)
(***************************************************************************)
\* draws the engine takes from the random source for one attempt
EngineDraws(words) == Len(words)

RECURSIVE Pick(_, _, _)
Pick(s, I, i) ==
    IF i > Len(s) THEN <<>>
    ELSE (IF i \in I THEN <<s[i]>> ELSE <<>>) \o Pick(s, I, i + 1)

\* what an attempt on `words` can report: any sub-list of them, in order
Placements(words) == { Pick(words, I, 1) : I \in SUBSET (1..Len(words)) }

\* an engine with room for every word
AllPlaced(words) == { words }

(***************************************************************************)
(* State.                                                                  *)
(***************************************************************************)
VARIABLES
    mounted,    \* the component is mounted
    cleanup,    \* the cleanup the last effect returned: [fn, call]
    lastArgs,   \* debounce: the arguments of the pending invocation
    timerId,    \* debounce: a timer is pending
    timerLeft,  \* clock ticks until the pending timer is due
    sinceCall,  \* clock ticks since the last debounced call (saturating)
    result,     \* debounce: what the last invocation of the pipeline returned
    runs,       \* the pipeline executions, in order of execution
    calls       \* the scheduling calls made, in order (a log)

vars == <<mounted, cleanup, lastArgs, timerId, timerLeft, sinceCall, result,
          runs, calls>>

NoArgs == [none |-> TRUE]

\* fn = 0: undefined; fn = r: the closure returned by pipeline execution r.
\* call: the scheduling call that returned it (a log field).
NoCleanup == [fn |-> 0, call |-> 0]

Init ==
    /\ mounted = TRUE
    /\ cleanup = NoCleanup
    /\ lastArgs = NoArgs
    /\ timerId = FALSE
    /\ timerLeft = 0
    /\ sinceCall = 0
    /\ result = 0
    /\ runs = <<>>
    /\ calls = <<>>

(***************************************************************************)
(* draw (lines 141-182): formats the selected words with the given bounds, *)
(* creates a layout for them, assigns it to `layout` and starts it.  Each  *)
(* handle keeps the frame (fontSizes, attempts) its onDone closes over.    *)
(* randomAt and rotateCalls are log fields: the generator state when the   *)
(* words were formatted, and the number of rotateWord() calls so far.      *)
(***************************************************************************)
\* (mutant of draw: the rotations of the first attempt are kept on a retry)
drawKeepRotation(run, fontSizes, attempts) ==
    LET fresh == formatWords(run.sortedWords, fontSizes, run.random)
        words == IF attempts = 1 THEN fresh
                 ELSE [i \in DOMAIN fresh |->
                         [fresh[i] EXCEPT
                            !.rotate = run.handles[1].words[i].rotate]]
    IN  [run EXCEPT
            !.handles = Append(@, [status |-> "started", fontSizes |-> fontSizes,
                                   attempts |-> attempts, words |-> words,
                                   randomAt |-> run.random]),
            !.layout = Len(run.handles) + 1,
            !.rotateCalls = @ + (IF attempts = 1 THEN Len(words) ELSE 0)]

draw(run, fontSizes, attempts) ==
    LET words == formatWords(run.sortedWords, fontSizes, run.random)
    IN  [run EXCEPT
            !.handles = Append(@, [status |-> "started", fontSizes |-> fontSizes,
                                   attempts |-> attempts, words |-> words,
                                   randomAt |-> run.random]),
            !.layout = Len(run.handles) + 1,
            !.random = RandomSkip(@, Len(words)),
            !.rotateCalls = @ + Len(words)]

(***************************************************************************)
(* The debounced function's body (lines 92-190), up to its return.         *)
(* atCall and quiet are log fields: the scheduling call whose arguments    *)
(* the execution took, and the ticks since that call when it ran.          *)
(***************************************************************************)
pipeline(args, entropy, atCall, quiet) ==
    draw([inp         |-> args,
          wordsArg    |-> WordsAfterSelect(args.words),
          random      |-> Seed(args.deterministic, entropy),
          sortedWords |-> sortedWords(args.words, args.maxWords),
          layout      |-> 0,
          handles     |-> <<>>,
          renders     |-> <<>>,
          warns       |-> <<>>,
          rotateCalls |-> 0,
          atCall      |-> atCall,
          quiet       |-> quiet,
          cancelled   |-> FALSE],
         args.fontSizes, 1)

\* (mutant of stop: the handle of the first attempt is stopped)
stopFirst(run) == [run EXCEPT !.handles[1].status = "stopped"]

\* layout.stop()
stop(run) == [run EXCEPT !.handles[run.layout].status = "stopped"]

\* (mutant of pipelineCleanup: the closure stops the handle it captured when
\* the pipeline returned, the one of attempt 1)
pipelineCleanupFirst(run) == IF run.layout # 0 THEN stopFirst(run) ELSE run

\* the closure the pipeline returns (lines 186-190)
pipelineCleanup(run) == IF run.layout # 0 THEN stop(run) ELSE run

Active(run) == { h \in DOMAIN run.handles : run.handles[h].status = "started" }

(***************************************************************************)
(* The effect's cleanup, as React invokes it before the next effect and at *)
(* unmount: the value the previous effect returned, when it is a function. *)
(* Log: an execution is marked cancelled when the cleanup its own          *)
(* scheduling call returned is invoked while its attempt is in flight; a   *)
(* call is marked cancelledPending when the cleanup it returned is invoked *)
(* while its debounced execution is still pending.                         *)
(***************************************************************************)
RunsAfterCleanup ==
    IF cleanup.fn = 0 THEN runs
    ELSE [r \in DOMAIN runs |->
            LET marked == IF runs[r].atCall = cleanup.call /\ Active(runs[r]) # {}
                          THEN [runs[r] EXCEPT !.cancelled = TRUE]
                          ELSE runs[r]
            IN  IF r = cleanup.fn THEN pipelineCleanup(marked) ELSE marked]

CallsAfterCleanup ==
    IF cleanup.fn # 0 /\ cleanup.call = Len(calls) /\ timerId /\ lastArgs # NoArgs
    THEN [calls EXCEPT ![cleanup.call].cancelledPending = TRUE]
    ELSE calls

\* Log: a call is superseded when the next call arrives while its own
\* execution is still pending.
CallsSuperseded(cs) ==
    IF timerId /\ lastArgs # NoArgs /\ cs # <<>>
    THEN [cs EXCEPT ![Len(cs)].superseded = TRUE]
    ELSE cs

(***************************************************************************)
(* lodash debounce(func, wait), trailing edge only (lines 83, 192).        *)
(***************************************************************************)
\* (mutant of shouldInvoke: the timer invokes whenever it fires)
shouldInvokeAlways(since) == TRUE

\* shouldInvoke: the quiet period since the last call has passed
shouldInvoke(since) == since >= DebounceTicks

\* remainingWait
remainingWait(since) == DebounceTicks - since

\* (mutant of debouncedReturn: the call returns the cleanup of the
\* execution it schedules)
debouncedReturnScheduled == Len(runs) + 1

\* what a debounced call returns while its invocation is pending: the
\* result of the last invocation that ran
debouncedReturn == result

(***************************************************************************)
(* useEffect (lines 196-207): the previous cleanup runs, then, with a      *)
(* selection, reRender.current(...) is called and its return value is the  *)
(* new cleanup.  The debounced call records its arguments and the time,    *)
(* arms the timer if none is pending, and returns the last result.         *)
(***************************************************************************)
Effect ==
    \E inp \in InputSet, selection \in BOOLEAN :
        /\ mounted
        /\ selection => Len(calls) < MaxCalls
        /\ runs' = RunsAfterCleanup
        /\ IF selection
           THEN /\ lastArgs' = inp
                /\ sinceCall' = 0
                /\ timerId' = TRUE
                /\ timerLeft' = IF timerId THEN timerLeft ELSE DebounceTicks
                /\ cleanup' = [fn |-> debouncedReturn, call |-> Len(calls) + 1]
                /\ calls' = Append(CallsSuperseded(CallsAfterCleanup),
                                   [inp |-> inp, returned |-> debouncedReturn,
                                    cancelledPending |-> FALSE,
                                    superseded |-> FALSE])
           ELSE /\ cleanup' = NoCleanup
                /\ calls' = CallsAfterCleanup
                /\ UNCHANGED <<lastArgs, sinceCall, timerId, timerLeft>>
        /\ UNCHANGED <<mounted, result>>

\* the component unmounts: React runs the last effect's cleanup
Unmount ==
    /\ mounted
    /\ mounted' = FALSE
    /\ runs' = RunsAfterCleanup
    /\ calls' = CallsAfterCleanup
    /\ cleanup' = NoCleanup
    /\ UNCHANGED <<lastArgs, timerId, timerLeft, sinceCall, result>>

\* one clock tick passes while a timer is pending (a due timer may fire late)
Tick ==
    /\ timerId
    /\ timerLeft > 0 \/ sinceCall < DebounceTicks
    /\ timerLeft' = Max(timerLeft - 1, 0)
    /\ sinceCall' = Min(sinceCall + 1, DebounceTicks)
    /\ UNCHANGED <<mounted, cleanup, lastArgs, timerId, result, runs, calls>>

(***************************************************************************)
(* debounce's timerExpired: on the trailing edge the pipeline is invoked   *)
(* with the pending arguments and its return value becomes the result;     *)
(* otherwise the timer is re-armed for the remaining wait.                 *)
(***************************************************************************)
TimerExpired ==
    /\ timerId
    /\ timerLeft = 0
    /\ IF shouldInvoke(sinceCall)
       THEN /\ timerId' = FALSE
            /\ IF lastArgs # NoArgs
               THEN \E entropy \in 1..MaxEntropy :
                      /\ runs' = Append(runs, pipeline(lastArgs, entropy,
                                                       Len(calls), sinceCall))
                      /\ result' = Len(runs) + 1
                      /\ lastArgs' = NoArgs
               ELSE UNCHANGED <<runs, result, lastArgs>>
            /\ UNCHANGED timerLeft
       ELSE /\ timerLeft' = remainingWait(sinceCall)
            /\ UNCHANGED <<timerId, runs, result, lastArgs>>
    /\ UNCHANGED <<mounted, cleanup, sinceCall, calls>>

(***************************************************************************)
(* onDone (lines 148-179) of the handle h of execution r, which the engine *)
(* calls with the words it placed when it finishes an attempt that was not *)
(* stopped.                                                                *)
(***************************************************************************)
\* (mutant of Shrink: every retry shrinks the configured bounds)
ShrinkConfigured(run, fontSizes) ==
    LET minFontSize == MathMax(RatMul(run.inp.fontSizes[1], SHRINK_FACTOR), RatOne)
        maxFontSize == MathMax(RatMul(run.inp.fontSizes[2], SHRINK_FACTOR), minFontSize)
    IN  <<minFontSize, maxFontSize>>

\* (mutant of Shrink: the bounds are not floored at 1)
ShrinkNoFloor(run, fontSizes) ==
    <<RatMul(fontSizes[1], SHRINK_FACTOR), RatMul(fontSizes[2], SHRINK_FACTOR)>>

\* (mutant of Shrink: the maximum is floored at 1, not at the new minimum)
ShrinkMaxAtOne(run, fontSizes) ==
    <<MathMax(RatMul(fontSizes[1], SHRINK_FACTOR), RatOne),
      MathMax(RatMul(fontSizes[2], SHRINK_FACTOR), RatOne)>>

\* lines 163-167
Shrink(run, fontSizes) ==
    LET minFontSize == MathMax(RatMul(fontSizes[1], SHRINK_FACTOR), RatOne)
        maxFontSize == MathMax(RatMul(fontSizes[2], SHRINK_FACTOR), minFontSize)
    IN  <<minFontSize, maxFontSize>>

\* (mutant of Retry: the chain gives up when attempt 10 completes)
RetryStrict(run, frame, computedWords) ==
    /\ Len(run.sortedWords) # Len(computedWords)
    /\ frame.attempts < MAX_LAYOUT_ATTEMPTS

\* lines 153-156
Retry(run, frame, computedWords) ==
    /\ Len(run.sortedWords) # Len(computedWords)
    /\ frame.attempts <= MAX_LAYOUT_ATTEMPTS

\* (mutant of onDoneRun: a chain that ran out of attempts renders nothing)
onDoneRunNoBestEffort(run, h, computedWords) ==
    LET frame == run.handles[h]
        done  == [run EXCEPT !.handles[h].status = "done",
                             !.random = RandomSkip(@, EngineDraws(frame.words))]
    IN  IF Retry(run, frame, computedWords)
        THEN LET warned ==
                   IF frame.attempts = MAX_LAYOUT_ATTEMPTS
                   THEN [done EXCEPT !.warns =
                           Append(@, Len(run.sortedWords) - Len(computedWords))]
                   ELSE done
             IN  draw(stop(warned), Shrink(run, frame.fontSizes),
                      frame.attempts + 1)
        ELSE IF Len(run.sortedWords) # Len(computedWords)
             THEN done
             ELSE [done EXCEPT !.renders = Append(@, computedWords)]

onDoneRun(run, h, computedWords) ==
    LET frame == run.handles[h]
        done  == [run EXCEPT !.handles[h].status = "done",
                             !.random = RandomSkip(@, EngineDraws(frame.words))]
    IN  IF Retry(run, frame, computedWords)
        THEN LET warned ==
                   IF frame.attempts = MAX_LAYOUT_ATTEMPTS
                   THEN [done EXCEPT !.warns =
                           Append(@, Len(run.sortedWords) - Len(computedWords))]
                   ELSE done
             IN  draw(stop(warned), Shrink(run, frame.fontSizes),
                      frame.attempts + 1)
        ELSE [done EXCEPT !.renders = Append(@, computedWords)]

onDoneStep(r, h, computedWords) ==
    /\ runs' = [runs EXCEPT ![r] = onDoneRun(@, h, computedWords)]
    /\ UNCHANGED <<mounted, cleanup, lastArgs, timerId, timerLeft,
                   sinceCall, result, calls>>

onDone ==
    \E r \in DOMAIN runs :
      \E h \in Active(runs[r]) :
        \E computedWords \in Placements(runs[r].handles[h].words) :
            onDoneStep(r, h, computedWords)

Next == Effect \/ Unmount \/ Tick \/ TimerExpired \/ onDone

Spec == Init /\ [][Next]_vars

(***************************************************************************)
(* A component that is mounted with one set of props, which never change:  *)
(* the effect runs once, with a selection.                                 *)
(***************************************************************************)
Mount ==
    \E inp \in ChainInputs :
        /\ mounted
        /\ calls = <<>>
        /\ lastArgs' = inp
        /\ sinceCall' = 0
        /\ timerId' = TRUE
        /\ timerLeft' = DebounceTicks
        /\ cleanup' = [fn |-> debouncedReturn, call |-> 1]
        /\ calls' = <<[inp |-> inp, returned |-> debouncedReturn,
                       cancelledPending |-> FALSE, superseded |-> FALSE]>>
        /\ UNCHANGED <<mounted, result, runs>>

NextChain == Mount \/ Tick \/ TimerExpired \/ onDone

SpecChain == Init /\ [][NextChain]_vars

(***************************************************************************)
(* The component with changing props on a canvas with room for every word: *)
(* every attempt places all its words, so no chain retries.                *)
(***************************************************************************)
onDonePlaced ==
    \E r \in DOMAIN runs :
      \E h \in Active(runs[r]) :
        \E computedWords \in AllPlaced(runs[r].handles[h].words) :
            onDoneStep(r, h, computedWords)

NextSched == Effect \/ Unmount \/ Tick \/ TimerExpired \/ onDonePlaced

SpecSched == Init /\ [][NextSched]_vars

(***************************************************************************)
(* The chain of a component mounted once, with an engine that finishes     *)
(* every attempt it is given.                                              *)
(***************************************************************************)
\* ENABLED <<onDone>>_vars: onDone has no guard but an attempt in flight, the
\* engine reports some placement for it, and the step changes its status
onDoneEnabled == \E r \in DOMAIN runs : Active(runs[r]) # {}

\* WF_vars(onDone), with ENABLED <<onDone>>_vars written as onDoneEnabled
FairChain ==
    /\ SpecChain
    /\ ([]<>(~onDoneEnabled) \/ []<><<onDone>>_vars)

(***************************************************************************)
(* A component that is given the same props twice and then unmounts: the   *)
(* effect runs a second time with the inputs of the first (two executions  *)
(* of the pipeline on identical inputs), and the cleanup the second effect *)
(* returned runs at unmount.                                               *)
(***************************************************************************)
TwinInputs ==
    { Inputs(ExampleWords, 2, DefaultFontSizes, d) : d \in BOOLEAN }

MountTwin ==
    \E inp \in TwinInputs :
        /\ mounted
        /\ calls = <<>>
        /\ lastArgs' = inp
        /\ sinceCall' = 0
        /\ timerId' = TRUE
        /\ timerLeft' = DebounceTicks
        /\ cleanup' = [fn |-> debouncedReturn, call |-> 1]
        /\ calls' = <<[inp |-> inp, returned |-> debouncedReturn,
                       cancelledPending |-> FALSE, superseded |-> FALSE]>>
        /\ UNCHANGED <<mounted, result, runs>>

Resubmit ==
    /\ mounted
    /\ Len(calls) = 1
    /\ runs' = RunsAfterCleanup
    /\ lastArgs' = calls[1].inp
    /\ sinceCall' = 0
    /\ timerId' = TRUE
    /\ timerLeft' = IF timerId THEN timerLeft ELSE DebounceTicks
    /\ cleanup' = [fn |-> debouncedReturn, call |-> 2]
    /\ calls' = Append(CallsSuperseded(CallsAfterCleanup),
                       [inp |-> calls[1].inp, returned |-> debouncedReturn,
                        cancelledPending |-> FALSE, superseded |-> FALSE])
    /\ UNCHANGED <<mounted, result>>

NextTwin ==
    MountTwin \/ Resubmit \/ Unmount \/ Tick \/ TimerExpired \/ onDone

SpecTwin == Init /\ [][NextTwin]_vars

(***************************************************************************)
(* Properties.                                                             *)
(***************************************************************************)
Handles == { <<r, h>> \in (DOMAIN runs) \X (1..(MAX_LAYOUT_ATTEMPTS + 2)) :
               h \in DOMAIN runs[r].handles }

Configured(r) == runs[r].inp.fontSizes

Bounds(r, h) == runs[r].handles[h].fontSizes

\* C1: a retry chain performs at most 10 layout attempts: the attempt
\* number of a started layout never exceeds MAX_LAYOUT_ATTEMPTS.
C1_AtMostTenAttempts ==
    \A rh \in Handles :
        runs[rh[1]].handles[rh[2]].attempts <= MAX_LAYOUT_ATTEMPTS

\* C5: at most one layout handle of the component is active (started and
\* neither completed nor stopped) at any time.
C5_AtMostOneActive ==
    Cardinality({ rh \in Handles :
                    runs[rh[1]].handles[rh[2]].status = "started" }) <= 1

\* C6: the warning is emitted exactly once in a chain that ends with fewer
\* words rendered than were selected, and not at all in a chain that ends
\* with every selected word rendered.
C6_WarningIffExhausted ==
    \A r \in DOMAIN runs :
        runs[r].renders # <<>> =>
            LET placed == Len(runs[r].renders[Len(runs[r].renders)])
            IN  /\ placed < Len(runs[r].sortedWords) => Len(runs[r].warns) = 1
                /\ placed = Len(runs[r].sortedWords) => Len(runs[r].warns) = 0

\* C7: across the attempts of one pipeline run every selected word keeps
\* the rotation it was given for attempt 1.
C7_RotationKept ==
    \A rh \in Handles :
        \A i \in DOMAIN runs[rh[1]].sortedWords :
            runs[rh[1]].handles[rh[2]].words[i].rotate
                = runs[rh[1]].handles[1].words[i].rotate

\* C7 as amended: every attempt, retries included, takes one new rotation
\* draw per selected word: after n attempts rotateWord was called n times
\* the number of selected words, and word i of an attempt carries the
\* rotation of the i-th draw taken when that attempt was formatted.
C7_RotationRedrawn ==
    \A r \in DOMAIN runs :
        /\ runs[r].rotateCalls = Len(runs[r].handles) * Len(runs[r].sortedWords)
        /\ \A h \in DOMAIN runs[r].handles :
             LET frame == runs[r].handles[h]
             IN  /\ Len(frame.words) = Len(runs[r].sortedWords)
                 /\ \A i \in DOMAIN frame.words :
                      frame.words[i].rotate
                          = rotateWord(RandomSkip(frame.randomAt, i - 1))

C7_Witness ==
    \E r \in DOMAIN runs :
        /\ Len(runs[r].handles) >= 3
        /\ runs[r].sortedWords # <<>>
        /\ runs[r].handles[3].words[1].rotate # runs[r].handles[1].words[1].rotate

\* the bounds of every retry are at most those of the attempt before, and
\* at least 1
NonIncreasingFlooredAtOne(r) ==
    \A h \in DOMAIN runs[r].handles :
        h > 1 =>
            /\ RatLeq(Bounds(r, h)[1], Bounds(r, h - 1)[1])
            /\ RatLeq(Bounds(r, h)[2], Bounds(r, h - 1)[2])
            /\ RatLeq(RatOne, Bounds(r, h)[1])
            /\ RatLeq(RatOne, Bounds(r, h)[2])

\* C8: for configured fontSizes with 0 < min <= max the bounds along a
\* retry chain never increase and no retry bound is below 1.
C8_NonIncreasing ==
    \A r \in DOMAIN runs :
        (/\ RatLess(Rat(0, 1), Configured(r)[1])
         /\ RatLeq(Configured(r)[1], Configured(r)[2]))
            => NonIncreasingFlooredAtOne(r)

\* C8 as amended: for configured fontSizes with 1 <= min <= max the bounds
\* along a retry chain never increase and no retry bound is below 1.
C8_NonIncreasingFromOne ==
    \A r \in DOMAIN runs :
        (/\ RatLeq(RatOne, Configured(r)[1])
         /\ RatLeq(Configured(r)[1], Configured(r)[2]))
            => NonIncreasingFlooredAtOne(r)

C8_Witness ==
    \E r \in DOMAIN runs :
        /\ RatEq(Configured(r)[1], RatOne)
        /\ RatEq(Configured(r)[2], Rat(2, 1))
        /\ Len(runs[r].handles) > MAX_LAYOUT_ATTEMPTS
        /\ RatEq(Bounds(r, 3)[1], RatOne)
        /\ RatLess(Bounds(r, 3)[2], Bounds(r, 2)[2])

\* y = max(x * 0.95, floor)
IsShrunk(y, x, floor) ==
    LET scaled == RatMul(x, Rat(95, 100))
    IN  /\ RatLeq(scaled, y)
        /\ RatLeq(floor, y)
        /\ RatEq(y, scaled) \/ RatEq(y, floor)

\* C9: attempt 1 uses the configured fontSizes; the bounds of attempt n+1
\* are newMin = max(oldMin*0.95, 1), newMax = max(oldMax*0.95, newMin) of
\* the bounds of attempt n; [4,32] retries with [3.8,30.4] as attempt 2.
C9_ShrinkSequence ==
    \A r \in DOMAIN runs :
        \A h \in DOMAIN runs[r].handles :
            /\ runs[r].handles[h].attempts = h
            /\ h = 1 => Bounds(r, 1) = Configured(r)
            /\ h > 1 =>
                 /\ IsShrunk(Bounds(r, h)[1], Bounds(r, h - 1)[1], RatOne)
                 /\ IsShrunk(Bounds(r, h)[2], Bounds(r, h - 1)[2], Bounds(r, h)[1])
            /\ (h = 2 /\ Configured(r) = DefaultFontSizes) =>
                 /\ RatEq(Bounds(r, 2)[1], Rat(38, 10))
                 /\ RatEq(Bounds(r, 2)[2], Rat(304, 10))

C9_Witness ==
    \E r \in DOMAIN runs :
        /\ Configured(r) = DefaultFontSizes
        /\ Len(runs[r].handles) >= 3
        /\ runs[r].handles[2].attempts = 2
        /\ ~RatEq(Bounds(r, 3)[1], Bounds(r, 2)[1])

\* the position of the word named t in the list w (0 when absent)
IndexOf(w, t) ==
    IF \E i \in DOMAIN w : w[i].text = t
    THEN CHOOSE i \in DOMAIN w : w[i].text = t
    ELSE 0

\* C10: the Word Selector returns min(words.length, maxWords) words, the
\* highest-valued ones, by value descending with equal values in their
\* original relative order, and leaves the input list as it was.
C10_WordSelector ==
    \A r \in DOMAIN runs :
        LET w == calls[runs[r].atCall].inp.words
            m == calls[runs[r].atCall].inp.maxWords
            s == runs[r].sortedWords
            at(k) == IndexOf(w, s[k].text)
        IN  /\ Len(s) = Min(Len(w), m)
            /\ \A k \in DOMAIN s : at(k) # 0 /\ w[at(k)] = s[k]
            /\ \A j, k \in DOMAIN s :
                 j < k => /\ s[j].value >= s[k].value
                          /\ at(j) # at(k)
                          /\ s[j].value = s[k].value => at(j) < at(k)
            /\ \A i \in DOMAIN w :
                 (\A k \in DOMAIN s : at(k) # i) =>
                     \A k \in DOMAIN s :
                         \/ w[i].value < s[k].value
                         \/ w[i].value = s[k].value /\ at(k) < i
            /\ runs[r].wordsArg = w

C10_Witness ==
    \E r \in DOMAIN runs :
        LET w == runs[r].inp.words
        IN  /\ Len(w) = 3
            /\ runs[r].inp.maxWords = 2
            /\ w[1].value < w[2].value
            /\ w[2].value = w[3].value
            /\ runs[r].sortedWords = <<w[2], w[3]>>
            /\ runs[r].wordsArg = w

Executed(j) == { r \in DOMAIN runs : runs[r].atCall = j }

\* C4: of the scheduling calls that arrive while an execution is pending,
\* only the last is acted on: the pipeline executes exactly once, when the
\* quiet period after the last call has passed, with that call's inputs;
\* the inputs of the calls it superseded are never acted on.
C4_DebounceCoalesces ==
    /\ \A r \in DOMAIN runs :
         /\ runs[r].atCall \in DOMAIN calls
         /\ runs[r].inp = calls[runs[r].atCall].inp
         /\ runs[r].quiet >= DebounceTicks
    /\ \A j \in DOMAIN calls :
         /\ Cardinality(Executed(j)) <= 1
         /\ calls[j].superseded => Executed(j) = {}
         /\ (~calls[j].superseded /\ ~(j = Len(calls) /\ timerId))
                => Cardinality(Executed(j)) = 1
         /\ (j = Len(calls) /\ timerId) => Executed(j) = {}

C4_Witness ==
    /\ Len(calls) = 2
    /\ calls[1].superseded
    /\ calls[1].inp # calls[2].inp
    /\ ~timerId
    /\ Len(runs) = 1
    /\ runs[1].inp = calls[2].inp

\* C2: once the cleanup returned by the scheduling call of an execution is
\* invoked while an attempt of that execution is in flight, the execution
\* starts no further attempt, emits no warning and never renders.
C2_CancelInFlightStopsRun ==
    [][\A r \in DOMAIN runs :
          runs[r].cancelled =>
              /\ Len(runs'[r].handles) = Len(runs[r].handles)
              /\ runs'[r].warns = runs[r].warns
              /\ runs'[r].renders = runs[r].renders]_vars

\* C3: when the cleanup returned by a scheduling call is invoked while that
\* call's debounced execution is still pending, the pipeline is never
\* executed for that call.
C3_CancelPendingCancelsExecution ==
    \A r \in DOMAIN runs : ~calls[runs[r].atCall].cancelledPending

\* the (rotate, size) assignments of attempt h of execution r, word by word
Assignments(r, h) ==
    [i \in DOMAIN runs[r].handles[h].words |->
        <<runs[r].handles[h].words[i].rotate, runs[r].handles[h].words[i].size>>]

\* C11: two executions of the pipeline on identical inputs with
\* deterministic = true give every word the same (rotate, size) in every
\* attempt both of them reach.
C11_DeterministicRuns ==
    \A r1, r2 \in DOMAIN runs :
        (runs[r1].inp = runs[r2].inp /\ runs[r1].inp.deterministic) =>
            /\ runs[r1].sortedWords = runs[r2].sortedWords
            /\ \A h \in (DOMAIN runs[r1].handles) \cap (DOMAIN runs[r2].handles) :
                 Assignments(r1, h) = Assignments(r2, h)

C11_Witness ==
    /\ Len(runs) = 2
    /\ runs[1].inp = runs[2].inp
    /\ runs[1].inp.deterministic
    /\ Len(runs[1].handles) >= 3
    /\ Len(runs[2].handles) >= 3
    /\ runs[1].sortedWords # <<>>
    /\ Assignments(1, 3) = Assignments(2, 3)
    /\ Assignments(1, 3) # Assignments(1, 1)

DefaultAngles == { -90, -60, -30, 0, 30, 60 }

\* floor(r * 6) for the draw r = x / RandomResolution
SixthOf(x) ==
    CHOOSE k \in 0..5 :
        k * RandomResolution <= 6 * x /\ 6 * x < (k + 1) * RandomResolution

\* C12: without a custom rotation strategy every rotation assigned to a
\* word is (floor(r * 6) - 3) * 30 for its draw r, one of -90, -60, -30, 0,
\* 30, 60, and never 90.
C12_DefaultRotation ==
    \A rh \in Handles :
        LET frame == runs[rh[1]].handles[rh[2]]
        IN  \A i \in DOMAIN frame.words :
                LET x == RandomSkip(frame.randomAt, i - 1)
                IN  /\ x \in 0..(RandomResolution - 1)
                    /\ frame.words[i].rotate = (SixthOf(x) - 3) * 30
                    /\ frame.words[i].rotate \in DefaultAngles
                    /\ frame.words[i].rotate # 90

C12_Witness ==
    \E r \in DOMAIN runs :
        \E h1, h2 \in DOMAIN runs[r].handles :
            \E i, j \in DOMAIN runs[r].sortedWords :
                /\ runs[r].handles[h1].words[i].rotate = -90
                /\ runs[r].handles[h2].words[j].rotate = 60
                /\ RandomSkip(runs[r].handles[h2].randomAt, j - 1)
                       = RandomResolution - 1

RenderedOnceFromLast(r) ==
    LET last == Len(runs[r].handles)
    IN  /\ Len(runs[r].renders) <= 1
        /\ runs[r].renders # <<>> =>
             /\ runs[r].handles[last].status = "done"
             /\ runs[r].renders[1] \in Placements(runs[r].handles[last].words)
             /\ Active(runs[r]) = {}

\* C14: when every started attempt eventually completes and nothing is
\* cancelled, every pipeline run eventually renders, exactly once, the
\* words of the last attempt it started, also when it ran out of attempts.
C14_EventuallyRendersOnce ==
    /\ [](\A r \in DOMAIN runs : RenderedOnceFromLast(r))
    /\ (runs # <<>>) ~> (\A r \in DOMAIN runs : Len(runs[r].renders) = 1)

C14_Witness ==
    \E r \in DOMAIN runs :
        /\ Len(runs[r].handles) > MAX_LAYOUT_ATTEMPTS
        /\ Len(runs[r].renders) = 1
        /\ Len(runs[r].renders[1]) < Len(runs[r].sortedWords)
        /\ runs[r].handles[Len(runs[r].handles)].status = "done"

\* C15: within one execution, attempt n+1 is created and started only after
\* stop() was called on the handle of attempt n, and a retry stops the handle
\* of the attempt that just completed: every handle but the newest has been
\* stopped, the newest is the one `layout` refers to, and handles are
\* created in attempt order.
C15_StopBeforeNext ==
    \A r \in DOMAIN runs :
        LET hs == runs[r].handles
        IN  /\ runs[r].layout = Len(hs)
            /\ \A h \in DOMAIN hs :
                 /\ hs[h].attempts = h
                 /\ h < Len(hs) => hs[h].status = "stopped"

C15_Witness ==
    \E r \in DOMAIN runs :
        /\ Len(runs[r].handles) = 3
        /\ runs[r].handles[1].status = "stopped"
        /\ runs[r].handles[2].status = "stopped"
        /\ runs[r].handles[3].status = "started"

\* C16: whenever the warning is emitted in a chain, the number of words it
\* reports as unplaced is the number of selected words minus the number of
\* words in the layout handed to the renderer at the end of that chain.
C16_WarningCountsRendered ==
    \A r \in DOMAIN runs :
        (runs[r].warns # <<>> /\ runs[r].renders # <<>>) =>
            \A w \in DOMAIN runs[r].warns :
                runs[r].warns[w] =
                    Len(runs[r].sortedWords) - Len(runs[r].renders[1])

\* C17: for one component instance, an execution for older inputs never
\* invokes the renderer after an execution for newer inputs has started:
\* every render call is made by the newest execution.
C17_OnlyNewestRenders ==
    [][\A r \in DOMAIN runs :
          runs'[r].renders # runs[r].renders => r = Len(runs)]_vars

\* the executions that ran before scheduling call j was made
ExecutedBefore(j) == { r \in DOMAIN runs : runs[r].atCall < j }

\* C18: the value a scheduling call returns, which the effect registers as
\* its cleanup, is the cleanup closure of the execution that most recently
\* ran before the call, or nothing if none has run; it is never the closure
\* of the execution the call itself schedules.
C18_ReturnsPreviousCleanup ==
    /\ \A j \in DOMAIN calls :
         /\ calls[j].returned = Cardinality(ExecutedBefore(j))
         /\ calls[j].returned # 0 =>
              /\ calls[j].returned \in ExecutedBefore(j)
              /\ \A r \in ExecutedBefore(j) : r <= calls[j].returned
         /\ calls[j].returned \notin Executed(j)
    /\ cleanup # NoCleanup => cleanup.fn = calls[cleanup.call].returned

C18_Witness ==
    /\ Len(calls) = 2
    /\ calls[1].returned = 0
    /\ calls[2].returned = 1
    /\ cleanup = [fn |-> 1, call |-> 2]
    /\ \E r \in DOMAIN runs : r = 2 /\ runs[r].atCall = 2

\* C19: the cleanup closure of an execution, invoked while attempt n of the
\* execution is in flight, stops the handle of attempt n, the newest handle
\* of that execution, and no handle of an earlier attempt.
C19_CleanupStopsNewest ==
    [][\A r \in DOMAIN runs :
          LET n == Len(runs[r].handles)
          IN  (/\ cleanup.fn = r
               /\ cleanup' # cleanup
               /\ runs[r].handles[n].status = "started")
              => /\ Len(runs'[r].handles) = n
                 /\ runs'[r].handles[n].status = "stopped"
                 /\ \A h \in 1..(n - 1) :
                      runs'[r].handles[h] = runs[r].handles[h]]_vars

C19_Witness ==
    \E r \in DOMAIN runs :
        /\ ~mounted
        /\ Len(runs[r].handles) >= 3
        /\ runs[r].handles[Len(runs[r].handles)].status = "stopped"
        /\ runs[r].renders = <<>>

\* C20: for every retry attempt (attempt number >= 2) the font-size bounds
\* passed to the engine satisfy 1 <= min <= max, whatever the configured
\* fontSizes were, a minimum above the maximum and values below 1 included.
C20_RetryBoundsOrdered ==
    \A <<r, h>> \in Handles :
        runs[r].handles[h].attempts >= 2 =>
            /\ RatLeq(RatOne, Bounds(r, h)[1])
            /\ RatLeq(Bounds(r, h)[1], Bounds(r, h)[2])

C20_Witness ==
    /\ \E <<r, h>> \in Handles :
         /\ RatLess(Configured(r)[2], Configured(r)[1])
         /\ runs[r].handles[h].attempts >= 2
         /\ RatLess(RatOne, Bounds(r, h)[1])
         /\ RatEq(Bounds(r, h)[1], Bounds(r, h)[2])

====
